---- MODULE Spec2Model ----
(***************************************************************************)
(* A model of goini (src/goini.go): the INI document (INI, iniOptions),    *)
(* its mutation and query methods, the serializer Write and the parser     *)
(* Read/parse.                                                             *)
(*                                                                         *)
(* Go strings are modelled as sequences of one-character strings, so that  *)
(* strings.TrimSpace and the two regular expressions are computed on the   *)
(* characters: "k = v" is <<"k", " ", "=", " ", "v">>.                     *)
(* Go maps are functions; map iteration order is a nondeterministic        *)
(* permutation of the keys.                                                *)
(***************************************************************************)
EXTENDS Integers, Sequences, FiniteSets, TLC

VARIABLES
    ini,        \* the document under the public API (*INI)
    lastOp,     \* the last public call on ini: its name, arguments and result
    ncalls,     \* number of public calls made on ini
    secBefore,  \* history: <<x, y>> when section x was created before y, both present
    optBefore,  \* history: <<s, x, y>> when option x of s was created before y, both present
    twin,       \* the document NewINI(false) that received the same calls as ini
    twinRet,    \* what the last call returned on twin
    gone,       \* history: secs, the sections RemoveSection removed; opts, <<s, k>>
                \* when s was removed while holding k and k was not added to s since
    pc,         \* "doc": calls on ini; "written": Write returned; "parse": inside the
                \* loop of parse; "returned": Read returned
    sink,       \* the io.Writer handed to Write
    wret,       \* the error Write returned
    rd,         \* the bufio.Reader handed to parse
    rini,       \* the document Read builds
    section,    \* parse: current section name
    lineNum,    \* parse: line counter
    done,       \* parse: loop flag
    perr,       \* the error Read returned
    lastHeader, \* history: whether a section header line was read, and the name in
                \* the latest one
    secArr,     \* the array under ini.sectionNames: its length is the capacity of
                \* the slice, its first len(ini.sectionNames) elements the slice
    optArr,     \* for every section of ini, the array under its optionNames
    snap        \* a list Sections() or Options(s) returned to the caller

docVars == <<ini, lastOp, ncalls, secBefore, optBefore, twin, twinRet, gone>>
writeVars == <<sink, wret>>
parseVars == <<rd, rini, section, lineNum, done, perr, lastHeader>>
sliceVars == <<secArr, optArr, snap>>
vars == <<ini, lastOp, ncalls, secBefore, optBefore, twin, twinRet, gone, pc, sink, wret,
          rd, rini, section, lineNum, done, perr, lastHeader, secArr, optArr, snap>>

----------------------------------------------------------------------------
(* Bounds and input pools *)

\* at most this many public calls on one document
MaxCalls == 4

SecPool == {<<"a">>, <<"b">>, <<"c">>}
OptPool == {<<"k">>, <<"j">>}
ValPool == {<<"v">>, <<"w">>}

----------------------------------------------------------------------------
(* Go strings and maps *)

EmptyString == <<>>

IsSpace(c) == c \in {" ", "\n", "\t", "\r"}

\* mutant of TrimSpace: only leading white space is cut (strings.TrimLeft)
TrimSpaceLeftOnly(s) ==
    LET keep == {i \in 1..Len(s) : ~IsSpace(s[i])}
    IN  IF keep = {} THEN <<>>
        ELSE SubSeq(s, CHOOSE i \in keep : \A j \in keep : i <= j, Len(s))

\* strings.TrimSpace
TrimSpace(s) ==
    LET keep == {i \in 1..Len(s) : ~IsSpace(s[i])}
    IN  IF keep = {} THEN EmptyString
        ELSE SubSeq(s, CHOOSE i \in keep : \A j \in keep : i <= j,
                       CHOOSE i \in keep : \A j \in keep : j <= i)

\* the positions of character c in s
indexes(s, c) == {i \in 1..Len(s) : s[i] = c}

EmptyMap == [x \in {} |-> <<>>]

MapPut(m, k, v) == [x \in (DOMAIN m) \cup {k} |-> IF x = k THEN v ELSE m[x]]

MapDelete(m, k) == [x \in (DOMAIN m) \ {k} |-> m[x]]

Range(seq) == {seq[i] : i \in 1..Len(seq)}

\* every order in which a range loop may visit the keys of a map
Perms(S) == {p \in [1..Cardinality(S) -> S] : \A i, j \in 1..Cardinality(S) : p[i] = p[j] => i = j}

----------------------------------------------------------------------------
(* iniOptions *)

\* a slice of strings is an array arr, whose length is the capacity, and a
\* length len; the capacities append may give a slice of capacity old that must
\* hold n elements: from n to twice the old capacity
growCaps(old, n) == n..(IF 2 * old > n THEN 2 * old ELSE n)

\* the list l in a new array of capacity c, the free elements being ""
padTo(l, c) == l \o [i \in 1..(c - Len(l)) |-> EmptyString]

\* append(names, x) on the slice (arr, len): the arrays it may leave under the
\* result, and whether the result moved to a new array
sliceAppend(arr, len, x) ==
    IF len < Len(arr)
    THEN {[arr |-> [arr EXCEPT ![len + 1] = x], moved |-> FALSE]}
    ELSE {[arr |-> padTo(Append(SubSeq(arr, 1, len), x), c), moved |-> TRUE]
             : c \in growCaps(Len(arr), len + 1)}

\* append(names[:i], names[i+1:]...) on the slice (arr, len), i counted from 1:
\* the elements behind i move one place down inside the same array
sliceRemove(arr, len, i) ==
    [j \in 1..Len(arr) |-> IF j >= i /\ j < len THEN arr[j + 1] ELSE arr[j]]

\* no list was returned yet
NoSnap ==
    [kind |-> "none", sec |-> EmptyString, len |-> 0, shared |-> FALSE,
     arr |-> <<>>, was |-> <<>>]

newOptions(ordered) ==
    [ordered |-> ordered, optionNames |-> <<>>, options |-> EmptyMap]

exist(opts, optionName) == optionName \in DOMAIN opts.options

\* mutant of loopIndex: the loop never assigns i, which stays at the first element
loopIndexStuck(names, name) == 1

\* the index the loop of remove / RemoveSection leaves in i (1-based):
\* the last matching index, the first element when nothing matches
loopIndex(names, name) ==
    LET hits == {idx \in 1..Len(names) : names[idx] = name}
    IN  IF hits = {} THEN 1 ELSE CHOOSE idx \in hits : \A h \in hits : h <= idx

\* mutant of spliceOut: append(names[:i], names[i:]...), which removes nothing
spliceOutOffByOne(names, i) == SubSeq(names, 1, i - 1) \o SubSeq(names, i, Len(names))

\* append(names[:i], names[i+1:]...)
spliceOut(names, i) == SubSeq(names, 1, i - 1) \o SubSeq(names, i + 1, Len(names))

\* mutant of add: the name is appended without the exist check
addAlwaysAppends(opts, optionName, optionValue) ==
    [self |-> [opts EXCEPT
                 !.optionNames = IF opts.ordered THEN Append(@, optionName) ELSE @,
                 !.options = MapPut(@, optionName, optionValue)],
     ret |-> TRUE]

\* mutant of add: the result tells whether the name was new
addReturnsNew(opts, optionName, optionValue) ==
    [self |-> [opts EXCEPT
                 !.optionNames = IF opts.ordered /\ ~exist(opts, optionName)
                                 THEN Append(@, optionName) ELSE @,
                 !.options = MapPut(@, optionName, optionValue)],
     ret |-> ~exist(opts, optionName)]

add(opts, optionName, optionValue) ==
    [self |-> [opts EXCEPT
                 !.optionNames = IF opts.ordered /\ ~exist(opts, optionName)
                                 THEN Append(@, optionName) ELSE @,
                 !.options = MapPut(@, optionName, optionValue)],
     ret |-> TRUE]

get(opts, optionName) ==
    IF ~exist(opts, optionName) THEN <<EmptyString, FALSE>>
    ELSE <<opts.options[optionName], TRUE>>

\* mutant of remove: the name leaves optionNames but the map keeps the option
removeFromListOnly(opts, optionName) ==
    IF ~exist(opts, optionName) THEN [self |-> opts, ret |-> FALSE]
    ELSE [self |-> [opts EXCEPT
                      !.optionNames = IF opts.ordered
                                      THEN spliceOut(@, loopIndex(@, optionName))
                                      ELSE @],
          ret |-> TRUE]

\* mutant of remove: no exist check before the deletion
removeUnchecked(opts, optionName) ==
    [self |-> [opts EXCEPT
                 !.options = MapDelete(@, optionName),
                 !.optionNames = IF opts.ordered
                                 THEN spliceOut(@, loopIndex(@, optionName))
                                 ELSE @],
     ret |-> exist(opts, optionName)]

\* mutant of remove: in an ordered set only optionNames is updated, the delete
\* from the map standing in the other branch
removeOrderedListOnly(opts, optionName) ==
    IF ~exist(opts, optionName) THEN [self |-> opts, ret |-> FALSE]
    ELSE [self |-> [opts EXCEPT
                      !.options = IF opts.ordered THEN @ ELSE MapDelete(@, optionName),
                      !.optionNames = IF opts.ordered
                                      THEN spliceOut(@, loopIndex(@, optionName))
                                      ELSE @],
          ret |-> TRUE]

remove(opts, optionName) ==
    IF ~exist(opts, optionName) THEN [self |-> opts, ret |-> FALSE]
    ELSE [self |-> [opts EXCEPT
                      !.options = MapDelete(@, optionName),
                      !.optionNames = IF opts.ordered
                                      THEN spliceOut(@, loopIndex(@, optionName))
                                      ELSE @],
          ret |-> TRUE]

\* the lists getOptions may return
getOptions(opts) ==
    IF ~opts.ordered THEN Perms(DOMAIN opts.options) ELSE {opts.optionNames}

----------------------------------------------------------------------------
(* INI *)

NewINI(ordered) ==
    [ordered |-> ordered, sectionNames |-> <<>>, sections |-> EmptyMap]

HasSection(d, sectionName) == sectionName \in DOMAIN d.sections

HasOption(d, sectionName, optionName) ==
    IF ~HasSection(d, sectionName) THEN FALSE
    ELSE exist(d.sections[sectionName], optionName)

\* mutant of AddSection: the name is not appended to sectionNames
AddSectionOpNoAppend(d, sectionName) ==
    IF ~HasSection(d, sectionName)
    THEN [self |-> [d EXCEPT
                      !.sections = MapPut(@, sectionName, newOptions(d.ordered))],
          ret |-> TRUE]
    ELSE [self |-> d, ret |-> FALSE]

\* mutant of RemoveSection: the options of the section stay behind, and come
\* back when the section is created again
RemoveSectionOpKeepsOptions(d, sectionName) ==
    IF ~HasSection(d, sectionName) THEN [self |-> d, ret |-> FALSE]
    ELSE [self |-> [d EXCEPT
                      !.sectionNames = IF d.ordered
                                       THEN spliceOut(@, loopIndex(@, sectionName))
                                       ELSE @],
          ret |-> TRUE]

\* mutant of AddSection: the name of an existing section moves to the end of
\* sectionNames
AddSectionOpMovesToEnd(d, sectionName) ==
    IF ~HasSection(d, sectionName)
    THEN [self |-> [d EXCEPT
                      !.sections = MapPut(@, sectionName, newOptions(d.ordered)),
                      !.sectionNames = IF d.ordered THEN Append(@, sectionName) ELSE @],
          ret |-> TRUE]
    ELSE [self |-> [d EXCEPT
                      !.sectionNames =
                          IF d.ordered
                          THEN Append(spliceOut(@, loopIndex(@, sectionName)), sectionName)
                          ELSE @],
          ret |-> FALSE]

\* mutant of AddSection: an existing section is replaced by an empty one
AddSectionOpReplaces(d, sectionName) ==
    [self |-> [d EXCEPT
                 !.sections = MapPut(@, sectionName, newOptions(d.ordered)),
                 !.sectionNames = IF d.ordered /\ ~HasSection(d, sectionName)
                                  THEN Append(@, sectionName) ELSE @],
     ret |-> ~HasSection(d, sectionName)]

AddSectionOp(d, sectionName) ==
    IF ~HasSection(d, sectionName)
    THEN [self |-> [d EXCEPT
                      !.sections = MapPut(@, sectionName, newOptions(d.ordered)),
                      !.sectionNames = IF d.ordered THEN Append(@, sectionName) ELSE @],
          ret |-> TRUE]
    ELSE [self |-> d, ret |-> FALSE]

AddOptionOp(d, sectionName, optionName, optionValue) ==
    LET d1 == IF ~HasSection(d, sectionName) THEN AddSectionOp(d, sectionName).self ELSE d
        r  == add(d1.sections[sectionName], optionName, optionValue)
    IN  [self |-> [d1 EXCEPT !.sections[sectionName] = r.self], ret |-> r.ret]

GetOption(d, sectionName, optionName) ==
    IF HasSection(d, sectionName) THEN get(d.sections[sectionName], optionName)
    ELSE <<EmptyString, FALSE>>

RemoveSectionOp(d, sectionName) ==
    IF ~HasSection(d, sectionName) THEN [self |-> d, ret |-> FALSE]
    ELSE [self |-> [d EXCEPT
                      !.sections = MapDelete(@, sectionName),
                      !.sectionNames = IF d.ordered
                                       THEN spliceOut(@, loopIndex(@, sectionName))
                                       ELSE @],
          ret |-> TRUE]

RemoveOptionOp(d, sectionName, optionName) ==
    IF ~HasSection(d, sectionName) THEN [self |-> d, ret |-> FALSE]
    ELSE LET r == remove(d.sections[sectionName], optionName)
         IN  [self |-> [d EXCEPT !.sections[sectionName] = r.self], ret |-> r.ret]

\* the lists Sections may return
Sections(d) ==
    IF ~d.ordered THEN Perms(DOMAIN d.sections) ELSE {d.sectionNames}

\* the lists Options may return
Options(d, sectionName) ==
    IF ~HasSection(d, sectionName) THEN {<<>>}
    ELSE getOptions(d.sections[sectionName])

----------------------------------------------------------------------------
(* Write *)

\* an io.Writer: it accepts writes until call number failAt (0: never fails),
\* and from then on every call fails
NewSink(failAt) ==
    [buf |-> EmptyString, nwrites |-> 0, failAt |-> failAt, failed |-> FALSE, afterFail |-> 0]

\* one call of writer.Write(p)
sinkWrite(w, p) ==
    IF w.failed \/ w.nwrites + 1 = w.failAt
    THEN [w EXCEPT !.nwrites = @ + 1, !.failed = TRUE,
                   !.afterFail = IF w.failed THEN @ + 1 ELSE @]
    ELSE [w EXCEPT !.nwrites = @ + 1, !.buf = @ \o p]

\* fmt.Fprintln(writer, "["+section+"]")
headerLine(sectionName) == <<"[">> \o sectionName \o <<"]", "\n">>

\* mutant of optionLine: no space between the operands
optionLineNoSpaces(option, value) == option \o <<"=">> \o value \o <<"\n">>

\* fmt.Fprintln(writer, option, "=", value): operands separated by one space
optionLine(option, value) == option \o <<" ", "=", " ">> \o value \o <<"\n">>

\* fmt.Fprintln(writer)
blankLine == <<"\n">>

\* the body of the outer loop for one section: the texts handed to Fprintln, in order
sectionWrites(d, sectionName, options) ==
    <<headerLine(sectionName)>>
    \o [i \in 1..Len(options) |-> optionLine(options[i], GetOption(d, sectionName, options[i])[1])]
    \o <<blankLine>>

RECURSIVE writeCalls(_, _, _)
\* every text Write hands to Fprintln, in order; secs is the list Sections returned
\* and optsOf[s] the list Options(s) returned
writeCalls(d, secs, optsOf) ==
    IF secs = <<>> THEN <<>>
    ELSE sectionWrites(d, Head(secs), optsOf[Head(secs)]) \o writeCalls(d, Tail(secs), optsOf)

RECURSIVE feed(_, _)
\* the sink after the calls ps; Write never looks at what Fprintln returns
feed(w, ps) == IF ps = <<>> THEN w ELSE feed(sinkWrite(w, Head(ps)), Tail(ps))

WriteOp(d, w, secs, optsOf) ==
    [sink |-> feed(w, writeCalls(d, secs, optsOf)), ret |-> "nil"]

----------------------------------------------------------------------------
(* Read and parse *)

Nil == [type |-> "nil"]
ErrSyntax(line, source) == [type |-> "ErrSyntax", Line |-> line, Source |-> source]

\* assignRegex.FindStringSubmatch(line) for ^([^=]+)=(.*)$ : <<>> stands for nil.
\* [^=]+ takes everything before the first "=", which must not be the first
\* character; "." matches no newline
assignRegex(line) ==
    LET eqs == indexes(line, "=")
        e   == CHOOSE i \in eqs : \A j \in eqs : i <= j
    IN  IF eqs = {} THEN <<>>
        ELSE IF e = 1 \/ \E i \in (e + 1)..Len(line) : line[i] = "\n" THEN <<>>
        ELSE <<line, SubSeq(line, 1, e - 1), SubSeq(line, e + 1, Len(line))>>

\* mutant of sectionRegex: ^\[([^\]]*)\]$, no ] inside the name
sectionRegexNoBracket(line) ==
    IF /\ Len(line) >= 2
       /\ line[1] = "["
       /\ line[Len(line)] = "]"
       /\ \A i \in 2..(Len(line) - 1) : line[i] # "\n" /\ line[i] # "]"
    THEN <<line, SubSeq(line, 2, Len(line) - 1)>>
    ELSE <<>>

\* sectionRegex.FindStringSubmatch(line) for ^\[(.*)\]$
sectionRegex(line) ==
    IF /\ Len(line) >= 2
       /\ line[1] = "["
       /\ line[Len(line)] = "]"
       /\ \A i \in 2..(Len(line) - 1) : line[i] # "\n"
    THEN <<line, SubSeq(line, 2, Len(line) - 1)>>
    ELSE <<>>

\* the width of int in the model, in bits
IntBits == 4

\* n as an int: addition wraps around in two's complement
IntWrap(n) == ((n + 2^(IntBits - 1)) % 2^IntBits) - 2^(IntBits - 1)

\* a reader over the text s (kind "text"), or over a stream that delivers any
\* line of LinePool and may end or fail at any read (kind "live")
\* nreads counts the calls of ReadString, last is the data of the latest call,
\* failed tells whether a call returned an error other than io.EOF, text is
\* the whole text of a reader of kind "text"
\* a stream over the text s; once the text is used up every read reports end
TextReader(s) ==
    [kind |-> "text", rest |-> s, end |-> "EOF", nreads |-> 0, last |-> EmptyString,
     failed |-> FALSE, text |-> s]
\* a stream over the text s whose reads fail once the text is used up
FailingReader(s) == [TextReader(s) EXCEPT !.end = "ErrIO"]
LiveReader ==
    [kind |-> "live", rest |-> EmptyString, end |-> "EOF", nreads |-> 0,
     last |-> EmptyString, failed |-> FALSE, text |-> EmptyString]

LinePool ==
    { <<>>, <<" ">>,
      <<";", "a", "=", "b">>, <<"#", "[", "a", "]">>,
      <<"a", "=", "b">>, <<" ", "a", " ", "=", " ", "b", " ">>, <<"b", "=">>,
      <<"=", "a">>, <<"a", "b">>,
      <<"[", "a", "]">>, <<"[", " ", "b", " ", "]">>, <<"[", "]">>,
      <<"[", "a", "]", "b", "]">>, <<"[", "a", "]", " ", "b">>,
      <<"[", "a", "=", "b", "]">>, <<"a", "=", "b", "=", "a">> }

\* what reader.ReadString('\n') may return: the data, the error and the reader
\* afterwards. The data ends in the delimiter exactly when the error is nil
ReadString(r) ==
    IF r.kind = "text"
    THEN LET nls == indexes(r.rest, "\n")
             n   == CHOOSE i \in nls : \A j \in nls : i <= j
         IN  IF nls = {}
             THEN {[line |-> r.rest, err |-> r.end,
                    rd |-> [r EXCEPT !.rest = EmptyString, !.nreads = IntWrap(@ + 1),
                                     !.last = r.rest,
                                     !.failed = @ \/ r.end = "ErrIO"]]}
             ELSE {[line |-> SubSeq(r.rest, 1, n), err |-> "nil",
                    rd |-> [r EXCEPT !.rest = SubSeq(r.rest, n + 1, Len(r.rest)),
                                     !.nreads = IntWrap(@ + 1),
                                     !.last = SubSeq(r.rest, 1, n)]]}
    ELSE {[line |-> l \o <<"\n">>, err |-> "nil",
           rd |-> [r EXCEPT !.nreads = IntWrap(@ + 1), !.last = l \o <<"\n">>]] : l \in LinePool}
         \cup {[line |-> l, err |-> "EOF",
                rd |-> [r EXCEPT !.nreads = IntWrap(@ + 1), !.last = l]] : l \in LinePool}
         \cup {[line |-> l, err |-> "ErrIO",
                rd |-> [r EXCEPT !.nreads = IntWrap(@ + 1), !.last = l, !.failed = TRUE]]
                  : l \in LinePool}

\* the state of parse: its locals, the document and, once it returned, the error
ParseState(d, sec, n, dn, p, e) ==
    [rini |-> d, section |-> sec, lineNum |-> n, done |-> dn, pc |-> p, perr |-> e]

\* where the loop goes after a "continue" or the end of the body
loopBack(dn) == IF dn THEN "returned" ELSE "parse"

\* mutant of classify: the header test stands before the assignment test
classifyHeaderFirst(line) ==
    IF Len(line) = 0 THEN "blank"
    ELSE IF line[1] = ";" \/ line[1] = "#" THEN "comment"
    ELSE IF sectionRegex(line) # <<>> THEN "header"
    ELSE IF assignRegex(line) # <<>> THEN "assign"
    ELSE "error"

\* mutant of classify: the assignment test stands before the comment test
classifyAssignFirst(line) ==
    IF Len(line) = 0 THEN "blank"
    ELSE IF assignRegex(line) # <<>> THEN "assign"
    ELSE IF line[1] = ";" \/ line[1] = "#" THEN "comment"
    ELSE IF sectionRegex(line) # <<>> THEN "header"
    ELSE "error"

\* how the body of the loop treats a trimmed line
classify(line) ==
    IF Len(line) = 0 THEN "blank"
    ELSE IF line[1] = ";" \/ line[1] = "#" THEN "comment"
    ELSE IF assignRegex(line) # <<>> THEN "assign"
    ELSE IF sectionRegex(line) # <<>> THEN "header"
    ELSE "error"

\* mutant of applyLine: a header adds the section but "section = name" is missing
applyLineKeepsSection(st, done1, lineNum1, line) ==
    LET kind == classify(line)
        key  == TrimSpace(assignRegex(line)[2])
        val  == TrimSpace(assignRegex(line)[3])
        name == TrimSpace(sectionRegex(line)[2])
    IN  CASE kind \in {"blank", "comment"} ->
               ParseState(st.rini, st.section, lineNum1, done1, loopBack(done1), Nil)
          [] kind = "assign" ->
               ParseState(AddOptionOp(st.rini, st.section, key, val).self,
                          st.section, lineNum1, done1, loopBack(done1), Nil)
          [] kind = "header" ->
               ParseState(AddSectionOp(st.rini, name).self,
                          st.section, lineNum1, done1, loopBack(done1), Nil)
          [] kind = "error" ->
               ParseState(st.rini, st.section, lineNum1, done1, "returned",
                          ErrSyntax(lineNum1, line))

\* the body of the loop of parse from the blank-line test on: line is the trimmed
\* line, lineNum1 and done1 the counter and the flag after the read
applyLine(st, done1, lineNum1, line) ==
    LET kind == classify(line)
        key  == TrimSpace(assignRegex(line)[2])
        val  == TrimSpace(assignRegex(line)[3])
        name == TrimSpace(sectionRegex(line)[2])
    IN  CASE kind \in {"blank", "comment"} ->
               ParseState(st.rini, st.section, lineNum1, done1, loopBack(done1), Nil)
          [] kind = "assign" ->
               ParseState(AddOptionOp(st.rini, st.section, key, val).self,
                          st.section, lineNum1, done1, loopBack(done1), Nil)
          [] kind = "header" ->
               ParseState(AddSectionOp(st.rini, name).self,
                          name, lineNum1, done1, loopBack(done1), Nil)
          [] kind = "error" ->
               ParseState(st.rini, st.section, lineNum1, done1, "returned",
                          ErrSyntax(lineNum1, line))

\* done after the read: only io.EOF sets it, any other error is dropped
doneAfter(st, r) == IF r.err = "EOF" THEN TRUE ELSE st.done

\* mutant of parseIter: lineNum++ stands after the blank and comment tests
parseIterLateCount(st, r) ==
    LET st1 == applyLine(st, doneAfter(st, r), IntWrap(st.lineNum + 1),
                         TrimSpace(r.line))
    IN  IF classify(TrimSpace(r.line)) \in {"blank", "comment"}
        THEN [st1 EXCEPT !.lineNum = st.lineNum]
        ELSE st1

\* mutant of parseIter: the loop ends at io.EOF without looking at the data read
parseIterStopsAtEOF(st, r) ==
    IF r.err = "EOF"
    THEN ParseState(st.rini, st.section, st.lineNum, TRUE, "returned", Nil)
    ELSE applyLine(st, doneAfter(st, r), IntWrap(st.lineNum + 1), TrimSpace(r.line))

\* one iteration of the loop of parse, r being what ReadString returned
parseIter(st, r) ==
    applyLine(st, doneAfter(st, r), IntWrap(st.lineNum + 1), TrimSpace(r.line))

----------------------------------------------------------------------------
(* Bounds of the behaviours explored *)

\* at most this many calls build the document that Write serializes
MaxBuild == 2

\* the sink fails at a call numbered at most this
MaxFailAt == 2

\* a live stream is read at most this many times
MaxReads == 3

\* a stream that ends delivers at most this many complete lines
MaxTermLines == 2

TermLinePool == {<<>>, <<"a", "=", "b">>, <<"[", "a", "]">>}

\* a stream of one line holds at most this many characters
MaxLineLen == 5

LineAlphabet == {"a", " ", "=", "[", "]", ";"}

\* a text holds at most this many complete lines
MaxScriptLines == 4

ScriptPool ==
    { <<"[", "a", "]">>, <<"[", "b", "]">>,
      <<"a", "=", "b">>, <<"b", "=", "a">>, <<"a", "=", "a">>, <<"a", "b">> }

RTSecPool == {<<"a">>, <<" ", "b">>, <<>>}
RTOptPool == {<<"k">>, <<";", "k">>, <<"k", " ">>, <<>>}
RTValPool == {<<"v">>, <<" ", "v">>}

----------------------------------------------------------------------------
(* Public calls on the document *)

\* the record of a call: its arguments, its result, and what HasSection, HasOption
\* and GetOption answered just before it
Call(op, s, k, v, ret) ==
    [op |-> op, sec |-> s, opt |-> k, val |-> v, ret |-> ret,
     hadSec |-> HasSection(ini, s), hadOpt |-> HasOption(ini, s, k),
     oldVal |-> GetOption(ini, s, k)[1]]

optionKeys(d, s) == IF HasSection(d, s) THEN DOMAIN d.sections[s].options ELSE {}

AddSection(s) ==
    /\ pc = "doc"
    /\ ncalls < MaxCalls
    /\ LET r == AddSectionOp(ini, s)
       IN  /\ ini' = r.self
           /\ lastOp' = Call("AddSection", s, <<>>, <<>>, r.ret)
           /\ secBefore' = IF HasSection(ini, s) THEN secBefore
                           ELSE secBefore \cup {<<x, s>> : x \in DOMAIN ini.sections}
    /\ twin' = AddSectionOp(twin, s).self
    /\ twinRet' = AddSectionOp(twin, s).ret
    /\ ncalls' = ncalls + 1
    /\ UNCHANGED <<optBefore, gone, pc, writeVars, parseVars>>

AddOption(s, k, v) ==
    /\ pc = "doc"
    /\ ncalls < MaxCalls
    /\ LET r == AddOptionOp(ini, s, k, v)
       IN  /\ ini' = r.self
           /\ lastOp' = Call("AddOption", s, k, v, r.ret)
           /\ secBefore' = IF HasSection(ini, s) THEN secBefore
                           ELSE secBefore \cup {<<x, s>> : x \in DOMAIN ini.sections}
           /\ optBefore' = IF HasOption(ini, s, k) THEN optBefore
                           ELSE optBefore \cup {<<s, x, k>> : x \in optionKeys(ini, s)}
    /\ twin' = AddOptionOp(twin, s, k, v).self
    /\ twinRet' = AddOptionOp(twin, s, k, v).ret
    /\ gone' = [gone EXCEPT !.opts = @ \ {<<s, k>>}]
    /\ ncalls' = ncalls + 1
    /\ UNCHANGED <<pc, writeVars, parseVars>>

RemoveSection(s) ==
    /\ pc = "doc"
    /\ ncalls < MaxCalls
    /\ LET r == RemoveSectionOp(ini, s)
       IN  /\ ini' = r.self
           /\ lastOp' = Call("RemoveSection", s, <<>>, <<>>, r.ret)
    /\ twin' = RemoveSectionOp(twin, s).self
    /\ twinRet' = RemoveSectionOp(twin, s).ret
    /\ gone' = IF HasSection(ini, s)
               THEN [secs |-> gone.secs \cup {s},
                     opts |-> gone.opts \cup {<<s, k>> : k \in optionKeys(ini, s)}]
               ELSE gone
    /\ secBefore' = {p \in secBefore : p[1] # s /\ p[2] # s}
    /\ optBefore' = {t \in optBefore : t[1] # s}
    /\ ncalls' = ncalls + 1
    /\ UNCHANGED <<pc, writeVars, parseVars>>

RemoveOption(s, k) ==
    /\ pc = "doc"
    /\ ncalls < MaxCalls
    /\ LET r == RemoveOptionOp(ini, s, k)
       IN  /\ ini' = r.self
           /\ lastOp' = Call("RemoveOption", s, k, <<>>, r.ret)
    /\ twin' = RemoveOptionOp(twin, s, k).self
    /\ twinRet' = RemoveOptionOp(twin, s, k).ret
    /\ optBefore' = {t \in optBefore : ~(t[1] = s /\ (t[2] = k \/ t[3] = k))}
    /\ ncalls' = ncalls + 1
    /\ UNCHANGED <<secBefore, gone, pc, writeVars, parseVars>>

\* Write(ini, writer) on a fresh sink
WriteCall ==
    /\ pc = "doc"
    /\ \E failAt \in 0..MaxFailAt :
       \E secs \in Sections(ini) :
       \E optsOf \in [DOMAIN ini.sections -> UNION {Options(ini, s) : s \in DOMAIN ini.sections}] :
          /\ \A s \in DOMAIN ini.sections : optsOf[s] \in Options(ini, s)
          /\ LET r == WriteOp(ini, NewSink(failAt), secs, optsOf)
             IN  /\ sink' = r.sink
                 /\ wret' = r.ret
    /\ pc' = "written"
    /\ UNCHANGED <<docVars, parseVars, sliceVars>>

\* a trimmed line of the form [ ... ] without "=", and the name it holds
IsHeaderText(l) ==
    Len(l) >= 2 /\ l[1] = "[" /\ l[Len(l)] = "]" /\ indexes(l, "=") = {}
HeaderName(l) == TrimSpace(SubSeq(l, 2, Len(l) - 1))

NoHeader == [seen |-> FALSE, name |-> EmptyString]

\* the history of headers after the data raw was read
headerAfter(h, raw) ==
    IF IsHeaderText(TrimSpace(raw))
    THEN [seen |-> TRUE, name |-> HeaderName(TrimSpace(raw))]
    ELSE h

\* Read(reader, ordered) on the text Write produced, with the ordered flag of
\* the document written: up to the call of parse
ReadCall ==
    /\ pc = "written"
    /\ ~sink.failed
    /\ rini' = NewINI(ini.ordered)
    /\ rd' = TextReader(sink.buf)
    /\ section' = EmptyString
    /\ lineNum' = 0
    /\ done' = FALSE
    /\ perr' = Nil
    /\ lastHeader' = NoHeader
    /\ pc' = "parse"
    /\ UNCHANGED <<docVars, writeVars, sliceVars>>

\* one iteration of the loop of parse; Read returns when the loop ends
ParseStep ==
    /\ pc = "parse"
    /\ rd.kind = "live" => lineNum < MaxReads
    /\ \E r \in ReadString(rd) :
       \E st \in {parseIter(ParseState(rini, section, lineNum, done, pc, perr), r)} :
              /\ rd' = r.rd
              /\ rini' = st.rini
              /\ section' = st.section
              /\ lineNum' = st.lineNum
              /\ done' = st.done
              /\ pc' = st.pc
              /\ perr' = st.perr
              /\ lastHeader' = headerAfter(lastHeader, r.line)
    /\ UNCHANGED <<docVars, writeVars, sliceVars>>

----------------------------------------------------------------------------
(* Specifications *)

InitDoc ==
    /\ lastOp = Call("NewINI", <<>>, <<>>, <<>>, TRUE)
    /\ ncalls = 0
    /\ secBefore = {}
    /\ optBefore = {}
    /\ twin = NewINI(FALSE)
    /\ twinRet = TRUE
    /\ gone = [secs |-> {}, opts |-> {}]
    /\ secArr = <<>>
    /\ optArr = EmptyMap
    /\ snap = NoSnap
    /\ sink = NewSink(0)
    /\ wret = "nil"

InitIdle ==
    /\ rd = TextReader(EmptyString)
    /\ rini = NewINI(FALSE)
    /\ section = EmptyString
    /\ lineNum = 0
    /\ done = FALSE
    /\ perr = Nil
    /\ lastHeader = NoHeader

\* the public calls on a document
Init ==
    /\ ini \in {NewINI(o) : o \in BOOLEAN}
    /\ InitDoc
    /\ InitIdle
    /\ pc = "doc"

----------------------------------------------------------------------------
(* The arrays under sectionNames and optionNames, and a list handed out *)

\* the arrays and the list handed out, as one value
Mem == [secArr |-> secArr, optArr |-> optArr, snap |-> snap]

SetMem(m) == secArr' = m.secArr /\ optArr' = m.optArr /\ snap' = m.snap

\* the list handed out keeps the array old, which the document has left
detach(sn, old) == [sn EXCEPT !.shared = FALSE, !.arr = old]

\* AddSection(s) on the document d: ini.sectionNames = append(ini.sectionNames, s)
\* and the empty optionNames of the new section
memAddSection(m, d, s) ==
    IF HasSection(d, s) THEN {m}
    ELSE IF ~d.ordered THEN {[m EXCEPT !.optArr = MapPut(@, s, <<>>)]}
    ELSE {[secArr |-> r.arr,
           optArr |-> MapPut(m.optArr, s, <<>>),
           snap   |-> IF r.moved /\ m.snap.kind = "sections" /\ m.snap.shared
                      THEN detach(m.snap, m.secArr) ELSE m.snap]
             : r \in sliceAppend(m.secArr, Len(d.sectionNames), s)}

\* add(k, v) on the options of section s of d:
\* opts.optionNames = append(opts.optionNames, k)
memAdd(m, d, s, k) ==
    IF ~d.ordered \/ HasOption(d, s, k) THEN {m}
    ELSE {[secArr |-> m.secArr,
           optArr |-> [m.optArr EXCEPT ![s] = r.arr],
           snap   |-> IF r.moved /\ m.snap.kind = "options" /\ m.snap.sec = s
                         /\ m.snap.shared
                      THEN detach(m.snap, m.optArr[s]) ELSE m.snap]
             : r \in sliceAppend(m.optArr[s], Len(d.sections[s].optionNames), k)}

\* AddOption(s, k, v) on d: AddSection(s), then add(k, v)
memAddOption(m, d, s, k) ==
    UNION {memAdd(m1, AddSectionOp(d, s).self, s, k) : m1 \in memAddSection(m, d, s)}

\* RemoveSection(s) on d: the splice of ini.sectionNames inside its array; the
\* options of s, and the array under their names, leave the document
memRemoveSection(m, d, s) ==
    IF ~HasSection(d, s) THEN m
    ELSE [secArr |-> IF d.ordered
                     THEN sliceRemove(m.secArr, Len(d.sectionNames),
                                      loopIndex(d.sectionNames, s))
                     ELSE m.secArr,
          optArr |-> MapDelete(m.optArr, s),
          snap   |-> IF m.snap.kind = "options" /\ m.snap.sec = s /\ m.snap.shared
                     THEN detach(m.snap, m.optArr[s]) ELSE m.snap]

\* RemoveOption(s, k) on d: the splice of optionNames inside its array
memRemoveOption(m, d, s, k) ==
    IF ~HasOption(d, s, k) \/ ~d.ordered THEN m
    ELSE [m EXCEPT !.optArr[s] =
                      sliceRemove(@, Len(d.sections[s].optionNames),
                                  loopIndex(d.sections[s].optionNames, k))]

\* the calls together with what they do to the arrays
AddSectionMem(s) == AddSection(s) /\ \E m \in memAddSection(Mem, ini, s) : SetMem(m)

AddOptionMem(s, k, v) ==
    AddOption(s, k, v) /\ \E m \in memAddOption(Mem, ini, s, k) : SetMem(m)

RemoveSectionMem(s) == RemoveSection(s) /\ SetMem(memRemoveSection(Mem, ini, s))

RemoveOptionMem(s, k) == RemoveOption(s, k) /\ SetMem(memRemoveOption(Mem, ini, s, k))

\* the caller keeps the list Sections() returns: ini.sectionNames itself in an
\* ordered document, a new slice otherwise
TakeSections ==
    /\ pc = "doc"
    /\ snap.kind = "none"
    /\ snap' \in IF ini.ordered
                 THEN {[kind |-> "sections", sec |-> EmptyString,
                        len |-> Len(ini.sectionNames), shared |-> TRUE, arr |-> <<>>,
                        was |-> ini.sectionNames]}
                 ELSE {[kind |-> "sections", sec |-> EmptyString, len |-> Len(l),
                        shared |-> FALSE, arr |-> l, was |-> l] : l \in Sections(ini)}
    /\ UNCHANGED <<docVars, pc, writeVars, parseVars, secArr, optArr>>

\* the caller keeps the list Options(s) returns: opts.optionNames itself in an
\* ordered document that has the section, a new slice otherwise
TakeOptions(s) ==
    /\ pc = "doc"
    /\ snap.kind = "none"
    /\ snap' \in IF ini.ordered /\ HasSection(ini, s)
                 THEN {[kind |-> "options", sec |-> s,
                        len |-> Len(ini.sections[s].optionNames), shared |-> TRUE,
                        arr |-> <<>>, was |-> ini.sections[s].optionNames]}
                 ELSE {[kind |-> "options", sec |-> s, len |-> Len(l),
                        shared |-> FALSE, arr |-> l, was |-> l] : l \in Options(ini, s)}
    /\ UNCHANGED <<docVars, pc, writeVars, parseVars, secArr, optArr>>

\* what the caller reads in the list it keeps
snapView ==
    IF ~snap.shared THEN SubSeq(snap.arr, 1, snap.len)
    ELSE IF snap.kind = "sections" THEN SubSeq(secArr, 1, snap.len)
    ELSE SubSeq(optArr[snap.sec], 1, snap.len)

\* the calls seen from the document alone: the arrays under its lists are not
\* looked at
Next ==
    \/ \E s \in SecPool : AddSection(s) /\ UNCHANGED sliceVars
    \/ \E s \in SecPool, k \in OptPool, v \in ValPool :
          AddOption(s, k, v) /\ UNCHANGED sliceVars
    \/ \E s \in SecPool : RemoveSection(s) /\ UNCHANGED sliceVars
    \/ \E s \in SecPool, k \in OptPool : RemoveOption(s, k) /\ UNCHANGED sliceVars

Spec == Init /\ [][Next]_vars

\* a document is built, written to a sink, and the text is read back
NextRT ==
    \/ \E s \in RTSecPool : ncalls < MaxBuild /\ AddSection(s) /\ UNCHANGED sliceVars
    \/ \E s \in RTSecPool, k \in RTOptPool, v \in RTValPool :
          ncalls < MaxBuild /\ AddOption(s, k, v) /\ UNCHANGED sliceVars
    \/ WriteCall
    \/ ReadCall
    \/ ParseStep

SpecRT == Init /\ [][NextRT]_vars

\* Read on a live stream: the state when Read calls parse
InitParse ==
    /\ ini = NewINI(FALSE)
    /\ InitDoc
    /\ rd = LiveReader
    /\ rini \in {NewINI(o) : o \in BOOLEAN}
    /\ section = EmptyString
    /\ lineNum = 0
    /\ done = FALSE
    /\ perr = Nil
    /\ lastHeader = NoHeader
    /\ pc = "parse"

NextParse == ParseStep

SpecParse == InitParse /\ [][NextParse]_vars

\* the texts of at most n complete lines
RECURSIVE LinesText(_)
LinesText(n) ==
    IF n = 0 THEN {EmptyString}
    ELSE LinesText(n - 1)
         \cup {l \o <<"\n">> \o t : l \in TermLinePool, t \in LinesText(n - 1)}

\* the streams that deliver finitely many lines, maybe a last line without
\* delimiter, and from then on report end-of-stream, or fail, on every read
EndingStreams ==
    {TextReader(t \o f) : t \in LinesText(MaxTermLines), f \in TermLinePool}
    \cup {FailingReader(t \o f) : t \in LinesText(MaxTermLines), f \in TermLinePool}

\* before Read is called
InitTerm ==
    /\ ini = NewINI(FALSE)
    /\ InitDoc
    /\ InitIdle
    /\ pc = "idle"

\* Read(reader, ordered) on such a stream: up to the call of parse
ReadStream ==
    /\ pc = "idle"
    /\ rd' \in EndingStreams
    /\ rini' \in {NewINI(o) : o \in BOOLEAN}
    /\ section' = EmptyString
    /\ lineNum' = 0
    /\ done' = FALSE
    /\ perr' = Nil
    /\ lastHeader' = NoHeader
    /\ pc' = "parse"
    /\ UNCHANGED <<docVars, writeVars, sliceVars>>

NextTerm == ReadStream \/ ParseStep

\* parse is one thread that keeps executing its loop until it returns
SpecTerm == InitTerm /\ [][NextTerm]_vars /\ WF_vars(ParseStep)

\* the strings of at most n characters of LineAlphabet
RECURSIVE LinesUpTo(_)
LinesUpTo(n) ==
    IF n = 0 THEN {EmptyString}
    ELSE LinesUpTo(n - 1)
         \cup {Append(l, c) : l \in {x \in LinesUpTo(n - 1) : Len(x) = n - 1},
                               c \in LineAlphabet}

\* Read on a stream that holds one line without delimiter: the state when Read
\* calls parse
InitLine ==
    /\ ini = NewINI(FALSE)
    /\ InitDoc
    /\ rd \in {TextReader(l) : l \in LinesUpTo(MaxLineLen)}
    /\ rini \in {NewINI(o) : o \in BOOLEAN}
    /\ section = EmptyString
    /\ lineNum = 0
    /\ done = FALSE
    /\ perr = Nil
    /\ lastHeader = NoHeader
    /\ pc = "parse"

NextLine == ParseStep

SpecLine == InitLine /\ [][NextLine]_vars

\* the texts of at most n complete lines of ScriptPool
RECURSIVE ScriptText(_)
ScriptText(n) ==
    IF n = 0 THEN {EmptyString}
    ELSE ScriptText(n - 1)
         \cup {l \o <<"\n">> \o t : l \in ScriptPool, t \in ScriptText(n - 1)}

\* Read on a text of several lines, the last one with or without delimiter:
\* the state when Read calls parse
InitScript ==
    /\ ini = NewINI(FALSE)
    /\ InitDoc
    /\ rd \in {TextReader(t \o f) : t \in ScriptText(MaxScriptLines),
                                     f \in ScriptPool \cup {EmptyString}}
    /\ rini \in {NewINI(o) : o \in BOOLEAN}
    /\ section = EmptyString
    /\ lineNum = 0
    /\ done = FALSE
    /\ perr = Nil
    /\ lastHeader = NoHeader
    /\ pc = "parse"

NextScript == ParseStep

SpecScript == InitScript /\ [][NextScript]_vars

\* the public calls, with a list of Sections() or Options(s) kept by the caller
NextAlias ==
    \/ \E s \in SecPool : AddSectionMem(s)
    \/ \E s \in SecPool, k \in OptPool, v \in ValPool : AddOptionMem(s, k, v)
    \/ \E s \in SecPool : RemoveSectionMem(s)
    \/ \E s \in SecPool, k \in OptPool : RemoveOptionMem(s, k)
    \/ TakeSections
    \/ \E s \in SecPool : TakeOptions(s)

SpecAlias == Init /\ [][NextAlias]_vars

\* every way a document comes about: the public calls, and parse
InitAll == Init \/ InitParse

NextAll == Next \/ NextParse

SpecAll == InitAll /\ [][NextAll]_vars

----------------------------------------------------------------------------
(* Claims about the public calls on a document (Spec) *)

\* the step is a public call of op on ini
IsCall(op) == ncalls' = ncalls + 1 /\ lastOp'.op = op

\* list holds exactly the names of set, each once
ListsExactly(list, set) == Range(list) = set /\ Len(list) = Cardinality(set)

\* x comes before y in list
ComesBefore(list, x, y) ==
    \E i, j \in 1..Len(list) : i < j /\ list[i] = x /\ list[j] = y

C1_Lists ==
    ini.ordered =>
        /\ \A secs \in Sections(ini) :
              /\ ListsExactly(secs, DOMAIN ini.sections)
              /\ \A i, j \in 1..Len(secs) : i < j => <<secs[i], secs[j]>> \in secBefore
        /\ \A s \in SecPool : \A opts \in Options(ini, s) :
              /\ ListsExactly(opts, optionKeys(ini, s))
              /\ \A i, j \in 1..Len(opts) : i < j => <<s, opts[i], opts[j]>> \in optBefore

C1_Step ==
    (ini.ordered /\ ncalls' = ncalls + 1) =>
        /\ \A x, y \in DOMAIN ini.sections \cap DOMAIN ini'.sections :
              ComesBefore(ini.sectionNames, x, y) <=> ComesBefore(ini'.sectionNames, x, y)
        /\ \A s \in DOMAIN ini.sections \cap DOMAIN ini'.sections :
           \A x, y \in optionKeys(ini, s) \cap optionKeys(ini', s) :
              ComesBefore(ini.sections[s].optionNames, x, y)
                 <=> ComesBefore(ini'.sections[s].optionNames, x, y)

\* C1: in an ordered document Sections() and Options(s) always list exactly the
\* names present, each once, in the order of their insertion (secBefore and
\* optBefore record which name was created before which), and no call changes
\* the relative order of two names that are present before and after it.
C1_InsertionOrder == [] C1_Lists /\ [][C1_Step]_vars

\* C1 witness: an ordered document from which a section that was not the last
\* one has been removed, two sections remaining.
C1_Witness ==
    /\ ini.ordered
    /\ lastOp.op = "RemoveSection" /\ lastOp.ret
    /\ Len(ini.sectionNames) = 2
    /\ \E x \in DOMAIN ini.sections : <<x, lastOp.sec>> \notin secBefore

C2_Step ==
    (IsCall("AddOption") /\ HasOption(ini, lastOp'.sec, lastOp'.opt)) =>
        LET s == lastOp'.sec
            k == lastOp'.opt
        IN  /\ \A opts \in Options(ini', s) : Cardinality(indexes(opts, k)) = 1
            /\ GetOption(ini', s, k) = <<lastOp'.val, TRUE>>
            /\ ini.ordered =>
                  /\ Options(ini', s) = Options(ini, s)
                  /\ \A opts \in Options(ini', s) : \A i, j \in 1..Len(opts) :
                        i < j => <<s, opts[i], opts[j]>> \in optBefore'

\* C2: AddOption(s, k, v2) on a document in which option k of s exists leaves
\* exactly one option k in s, GetOption(s, k) returns (v2, true), and in
\* ordered mode Options(s) is the list it was, k standing where its first
\* insertion put it.
C2_Overwrite == [][C2_Step]_vars

\* C2 witness: in an ordered document the first of two options has been
\* overwritten with another value.
C2_Witness ==
    /\ ini.ordered
    /\ lastOp.op = "AddOption" /\ lastOp.hadOpt /\ lastOp.oldVal # lastOp.val
    /\ Len(ini.sections[lastOp.sec].optionNames) = 2
    /\ ini.sections[lastOp.sec].optionNames[1] = lastOp.opt

C7_Step ==
    /\ (IsCall("RemoveOption") /\ lastOp'.ret) =>
          LET s == lastOp'.sec
              k == lastOp'.opt
          IN  /\ ~HasOption(ini', s, k)
              /\ GetOption(ini', s, k) = <<EmptyString, FALSE>>
              /\ \A opts \in Options(ini', s) : k \notin Range(opts)
              /\ HasSection(ini', s)
              /\ optionKeys(ini', s) = optionKeys(ini, s) \ {k}
              /\ \A o \in optionKeys(ini, s) \ {k} :
                    GetOption(ini', s, o) = GetOption(ini, s, o)
    /\ (IsCall("RemoveSection") /\ lastOp'.ret) =>
          /\ ~HasSection(ini', lastOp'.sec)
          /\ \A secs \in Sections(ini') : lastOp'.sec \notin Range(secs)

\* C7: after RemoveOption(s, k) returned true, HasOption(s, k) is false,
\* GetOption(s, k) is ("", false), k is not in Options(s), and s still exists
\* with its other options and their values; after RemoveSection(s) returned
\* true, HasSection(s) is false and s is not in Sections().
C7_Removed == [][C7_Step]_vars

\* C7 witness: RemoveOption returned true on a section that keeps another option.
C7_Witness ==
    /\ lastOp.op = "RemoveOption" /\ lastOp.ret
    /\ HasSection(ini, lastOp.sec)
    /\ optionKeys(ini, lastOp.sec) # {}

C8_Step ==
    /\ (IsCall("RemoveSection") /\ ~HasSection(ini, lastOp'.sec)) =>
          (lastOp'.ret = FALSE /\ ini' = ini)
    /\ (IsCall("RemoveOption") /\ ~HasOption(ini, lastOp'.sec, lastOp'.opt)) =>
          (lastOp'.ret = FALSE /\ ini' = ini)

\* C8: RemoveSection on an absent section, and RemoveOption on an absent
\* section or an absent option of an existing section, return false and leave
\* the document as it was.
C8_AbsentRemoval == [][C8_Step]_vars

\* C8 witness: RemoveOption of an absent option returned false in an ordered
\* document whose section holds another option.
C8_Witness ==
    /\ ini.ordered
    /\ lastOp.op = "RemoveOption" /\ ~lastOp.ret
    /\ lastOp.hadSec /\ ~lastOp.hadOpt
    /\ optionKeys(ini, lastOp.sec) # {}

\* C9: AddOption(s, k, v) on a document without section s creates s (in ordered
\* mode as the last of Sections()), and GetOption(s, k) then returns (v, true).
C9_ImplicitSection ==
    (lastOp.op = "AddOption" /\ ~lastOp.hadSec) =>
        /\ HasSection(ini, lastOp.sec)
        /\ ini.ordered => \A secs \in Sections(ini) :
              Len(secs) > 0 /\ secs[Len(secs)] = lastOp.sec
        /\ GetOption(ini, lastOp.sec, lastOp.opt) = <<lastOp.val, TRUE>>

\* C9 witness: AddOption created a section of an ordered document that already
\* held another section.
C9_Witness ==
    /\ ini.ordered
    /\ lastOp.op = "AddOption" /\ ~lastOp.hadSec
    /\ Len(ini.sectionNames) >= 2

C10_Step ==
    IsCall("AddSection") =>
        /\ lastOp'.ret = ~HasSection(ini, lastOp'.sec)
        /\ HasSection(ini, lastOp'.sec) => ini' = ini

\* C10: AddSection(s) returns true exactly when s was absent; when s is present
\* it returns false and the document, the options of s included, is unchanged.
C10_AddSection == [][C10_Step]_vars

\* C10 witness: AddSection returned false on a section that holds an option.
C10_Witness ==
    /\ lastOp.op = "AddSection" /\ ~lastOp.ret
    /\ optionKeys(ini, lastOp.sec) # {}

C12_AddOptionAsDocumented ==
    lastOp.op = "AddOption" => lastOp.ret = ~lastOp.hadOpt

\* the sets of names the lists hold
NameSets(lists) == {Range(l) : l \in lists}

\* C13: the same calls on NewINI(true) and on NewINI(false) return the same
\* value at every step and give the same set of names in Sections(), the same
\* set of names in Options(s) for every s, and the same HasOption and GetOption
\* results.
C13_OrderedUnorderedAgree ==
    ini.ordered =>
        /\ lastOp.ret = twinRet
        /\ NameSets(Sections(ini)) = NameSets(Sections(twin))
        /\ \A s \in SecPool :
              /\ HasSection(ini, s) = HasSection(twin, s)
              /\ NameSets(Options(ini, s)) = NameSets(Options(twin, s))
              /\ \A k \in OptPool :
                    /\ HasOption(ini, s, k) = HasOption(twin, s, k)
                    /\ GetOption(ini, s, k) = GetOption(twin, s, k)

\* C13 witness: an ordered document and its unordered twin after a RemoveOption
\* that returned true, two sections being present.
C13_Witness ==
    /\ ini.ordered /\ ~twin.ordered
    /\ lastOp.op = "RemoveOption" /\ lastOp.ret
    /\ Cardinality(DOMAIN twin.sections) = 2

----------------------------------------------------------------------------
(* Claims about Write followed by Read (SpecRT) *)

\* the section and option names of d, and its option values
namesOf(d) == DOMAIN d.sections \cup UNION {optionKeys(d, s) : s \in DOMAIN d.sections}
optionNamesOf(d) == UNION {optionKeys(d, s) : s \in DOMAIN d.sections}
valuesOf(d) ==
    UNION {{d.sections[s].options[k] : k \in optionKeys(d, s)} : s \in DOMAIN d.sections}

NoSpecial(str) == \A i \in 1..Len(str) : str[i] \notin {"=", "[", "]", "\n"}

\* the precondition the round trip is stated under
RT_Pre(d) ==
    /\ \A x \in namesOf(d) \cup valuesOf(d) : NoSpecial(x)
    /\ \A v \in valuesOf(d) : v # EmptyString

\* what the round trip needs besides
RT_Clean(d) ==
    /\ \A x \in namesOf(d) \cup valuesOf(d) :
          x = EmptyString \/ (~IsSpace(x[1]) /\ ~IsSpace(x[Len(x)]))
    /\ \A k \in optionNamesOf(d) : k # EmptyString /\ k[1] \notin {";", "#"}

\* r answers Sections, Options and GetOption as d does
SameDocument(d, r) ==
    /\ Sections(r) = Sections(d)
    /\ \A s \in DOMAIN d.sections :
          /\ Options(r, s) = Options(d, s)
          /\ \A k \in optionKeys(d, s) : GetOption(r, s, k) = GetOption(d, s, k)

\* C3 as stated: for a document built with AddSection and AddOption whose names
\* and values hold none of = [ ] newline and whose values are not empty, Read
\* of the text Write produced returns no error and a document with the same
\* Sections(), Options(s) and values.
C3_RoundTrip_AsStated ==
    (pc = "returned" /\ RT_Pre(ini)) => (perr = Nil /\ SameDocument(ini, rini))

\* C3 amended: the same, for documents whose names and values moreover neither
\* begin nor end with white space and whose option names are not empty and do
\* not begin with ; or #.
C3_RoundTrip ==
    (pc = "returned" /\ RT_Pre(ini) /\ RT_Clean(ini)) =>
        (perr = Nil /\ SameDocument(ini, rini))

\* C3 witness: a document with two sections, one holding an option, went
\* through Write and Read under the amended precondition.
C3_Witness ==
    /\ pc = "returned"
    /\ RT_Pre(ini) /\ RT_Clean(ini)
    /\ Cardinality(DOMAIN ini.sections) = 2
    /\ optionNamesOf(ini) # {}

\* C5: when a write to the sink failed, Write returns the failure and made no
\* further write.
C5_WriteFailureReturned ==
    (pc = "written" /\ sink.failed) => (wret # "nil" /\ sink.afterFail = 0)

----------------------------------------------------------------------------
(* Claims about Read on a stream (SpecParse) *)

\* a line that is neither blank, nor a comment, nor an assignment, nor a header
C4_Offending(raw) ==
    LET l == TrimSpace(raw)
    IN  /\ Len(l) > 0
        /\ l[1] \notin {";", "#"}
        /\ assignRegex(l) = <<>>
        /\ sectionRegex(l) = <<>>

C4_Error ==
    /\ (rd.nreads > 0 /\ C4_Offending(rd.last)) =>
          (pc = "returned" /\ perr = ErrSyntax(rd.nreads, TrimSpace(rd.last)))
    /\ perr.type = "ErrSyntax" => (rd.nreads > 0 /\ C4_Offending(rd.last))

C4_Step == pc = "returned" => UNCHANGED <<rd, rini, section, lineNum, perr>>

\* the step is one iteration of the loop of parse
IsRead == rd'.nreads = IntWrap(rd.nreads + 1)

C14_Step ==
    LET l == TrimSpace(rd'.last)
    IN  (IsRead /\ (l = EmptyString \/ l[1] \in {";", "#"})) =>
            /\ rini' = rini
            /\ section' = section
            /\ lineNum' = lineNum + 1
            /\ perr' = Nil

\* C14: a line that is empty after trimming, or whose first character after
\* trimming is ; or #, changes neither the document nor the current section,
\* whatever else it holds; it only advances the line number.
C14_SkippedLines == [][C14_Step]_vars

\* C14 witness: the comment ;a=b was read while the current section was a
\* named, existing section.
C14_Witness ==
    /\ TrimSpace(rd.last) = <<";", "a", "=", "b">>
    /\ section # EmptyString
    /\ HasSection(rini, section)

\* a trimmed line handled as an assignment, its key and its value
IsAssignText(l) ==
    l # EmptyString /\ l[1] \notin {";", "#", "="} /\ indexes(l, "=") # {}
FirstEq(l) == CHOOSE i \in indexes(l, "=") : \A j \in indexes(l, "=") : i <= j
AssignKey(l) == TrimSpace(SubSeq(l, 1, FirstEq(l) - 1))
AssignValue(l) == TrimSpace(SubSeq(l, FirstEq(l) + 1, Len(l)))

C15_Step ==
    LET l   == TrimSpace(rd'.last)
        tgt == IF lastHeader.seen THEN lastHeader.name ELSE EmptyString
    IN  (IsRead /\ IsAssignText(l)) =>
            /\ GetOption(rini', tgt, AssignKey(l)) = <<AssignValue(l), TRUE>>
            /\ DOMAIN rini'.sections = DOMAIN rini.sections \cup {tgt}
            /\ \A s \in DOMAIN rini.sections \ {tgt} : rini'.sections[s] = rini.sections[s]
            /\ optionKeys(rini', tgt) = optionKeys(rini, tgt) \cup {AssignKey(l)}

C15_Unnamed ==
    ~lastHeader.seen =>
        \A s \in DOMAIN rini.sections : s = EmptyString /\ optionKeys(rini, s) # {}

\* C15: every assignment line is added to the section named by the latest
\* section header read before it, and to the section named "" when no header
\* was read before it; that section exists only once such an assignment was read.
C15_CurrentSection == [] C15_Unnamed /\ [][C15_Step]_vars

\* C15 witness: after two different headers an assignment went to the section
\* of the second one.
C15_Witness ==
    /\ IsAssignText(TrimSpace(rd.last))
    /\ lastHeader.seen
    /\ Cardinality(DOMAIN rini.sections) = 2
    /\ optionKeys(rini, lastHeader.name) # {}
    /\ \E s \in DOMAIN rini.sections : s # lastHeader.name /\ optionKeys(rini, s) = {}

\* C4: as soon as a line read is neither blank, comment, assignment nor header,
\* Read returns ErrSyntax with Line the number of lines read so far, blank and
\* comment lines included, and Source the trimmed line; nothing is read or
\* changed after that.
C4_SyntaxError == [] C4_Error /\ [][C4_Step]_vars

\* C4 witness: ErrSyntax on line 3 after two lines that were blank or comments.
C4_Witness ==
    /\ pc = "returned"
    /\ perr.type = "ErrSyntax" /\ perr.Line = 3
    /\ rini.sections = EmptyMap

\* C6: when a read failed with an error other than end-of-stream, Read has
\* returned that error and the stream is not read again.
C6_ReadFailureReturned ==
    rd.failed => (pc = "returned" /\ perr = [type |-> "ErrIO"])

----------------------------------------------------------------------------
\* Claims on SpecAll

NoDuplicates(names) == Cardinality(Range(names)) = Len(names)

OptionsRepOK(opts) ==
    IF opts.ordered
    THEN NoDuplicates(opts.optionNames) /\ Range(opts.optionNames) = DOMAIN opts.options
    ELSE opts.optionNames = <<>>

RepOK(d) ==
    /\ IF d.ordered
       THEN NoDuplicates(d.sectionNames) /\ Range(d.sectionNames) = DOMAIN d.sections
       ELSE d.sectionNames = <<>>
    /\ \A s \in DOMAIN d.sections :
          d.sections[s].ordered = d.ordered /\ OptionsRepOK(d.sections[s])

\* C16: in an ordered document sectionNames has no duplicates and lists exactly
\* the keys of sections, and every optionNames has no duplicates and lists
\* exactly the keys of its options; in an unordered document sectionNames and
\* every optionNames are empty. This holds for the document of the public calls
\* and for the document parse builds.
C16_Representation == RepOK(ini) /\ RepOK(rini)

\* C16 witness: an ordered document after a successful RemoveOption that left
\* another option in the section, with a second section present.
C16_Witness ==
    /\ ini.ordered
    /\ lastOp.op = "RemoveOption" /\ lastOp.ret
    /\ Len(ini.sectionNames) = 2
    /\ \E s \in DOMAIN ini.sections : Len(ini.sections[s].optionNames) = 1

----------------------------------------------------------------------------
\* Claims on SpecTerm

\* C17: on a stream that delivers finitely many lines and then reports
\* end-of-stream or a read failure on every later read, parse eventually returns.
C17_ReadTerminates == (pc = "parse") ~> (pc = "returned")

----------------------------------------------------------------------------
\* Claims on SpecLine

\* parse returned after reading the one line of the stream
LineDone == pc = "returned" /\ rd.nreads = 1

\* the document holds exactly the section s with exactly the options of opts
HoldsOnly(d, s, opts) ==
    /\ DOMAIN d.sections = {s}
    /\ d.sections[s].options = opts

\* C18: a trimmed line that is no comment and holds "=" after at least one
\* character is handled as an assignment, also when it starts with [ and ends
\* with ]: the key is the text before the first "=", the value all the text after
\* it, both trimmed, and the key is never empty; a line that starts with "=" is
\* a syntax error.
C18_AssignmentFirst ==
    LET l == TrimSpace(rd.last)
    IN  LineDone =>
          /\ (l # EmptyString /\ l[1] \notin {";", "#", "="} /\ indexes(l, "=") # {}) =>
                /\ perr = Nil
                /\ AssignKey(l) # EmptyString
                /\ HoldsOnly(rini, EmptyString,
                             MapPut(EmptyMap, AssignKey(l), AssignValue(l)))
          /\ (l # EmptyString /\ l[1] = "=") =>
                /\ perr = ErrSyntax(1, l)
                /\ rini.sections = EmptyMap

\* C18 witness: the line [a=a] was stored as the option "[a" with the value "a]".
C18_Witness ==
    /\ LineDone
    /\ rd.last = <<"[", "a", "=", "a", "]">>
    /\ GetOption(rini, EmptyString, <<"[", "a">>) = <<(<<"a", "]">>), TRUE>>

\* C19: a trimmed line that is no comment and holds no "=" is a section header
\* exactly when its first character is [ and its last character is ]; the name
\* is the text between the first [ and the last ], trimmed; every other such
\* line is a syntax error.
C19_HeaderShape ==
    LET l == TrimSpace(rd.last)
    IN  (LineDone /\ l # EmptyString /\ l[1] \notin {";", "#"} /\ indexes(l, "=") = {}) =>
          IF Len(l) >= 2 /\ l[1] = "[" /\ l[Len(l)] = "]"
          THEN /\ perr = Nil
               /\ HoldsOnly(rini, TrimSpace(SubSeq(l, 2, Len(l) - 1)), EmptyMap)
          ELSE /\ perr = ErrSyntax(1, l)
               /\ rini.sections = EmptyMap

\* C19 witness: the line [a]a] made the section named "a]a".
C19_Witness ==
    /\ LineDone
    /\ rd.last = <<"[", "a", "]", "a", "]">>
    /\ perr = Nil
    /\ HasSection(rini, <<"a", "]", "a">>)

----------------------------------------------------------------------------
\* Claims on SpecRT: the text Write emits

\* the lines of one section: [name], one line per option, one empty line
RECURSIVE OptionLines(_, _, _)
OptionLines(d, s, opts) ==
    IF opts = <<>> THEN <<>>
    ELSE <<Head(opts) \o <<" ", "=", " ">> \o d.sections[s].options[Head(opts)]>>
         \o OptionLines(d, s, Tail(opts))

RECURSIVE ExpectedLines(_, _, _)
ExpectedLines(d, secs, optsOf) ==
    IF secs = <<>> THEN <<>>
    ELSE <<(<<"[">> \o Head(secs) \o <<"]">>)>>
         \o OptionLines(d, Head(secs), optsOf[Head(secs)])
         \o <<EmptyString>>
         \o ExpectedLines(d, Tail(secs), optsOf)

\* the text of the lines ls, each ended by a line feed
RECURSIVE JoinLines(_)
JoinLines(ls) == IF ls = <<>> THEN EmptyString ELSE Head(ls) \o <<"\n">> \o JoinLines(Tail(ls))

\* the choices of one list of Options per section
OptionOrders(d) ==
    {f \in [DOMAIN d.sections -> UNION {Options(d, s) : s \in DOMAIN d.sections}] :
        \A s \in DOMAIN d.sections : f[s] \in Options(d, s)}

C20_Text ==
    (pc = "written" /\ ~sink.failed) =>
        \E secs \in Sections(ini), optsOf \in OptionOrders(ini) :
            /\ sink.buf = JoinLines(ExpectedLines(ini, secs, optsOf))
            /\ sink.nwrites = Len(ExpectedLines(ini, secs, optsOf))

C20_Step == (pc = "doc" /\ pc' = "written") => ini' = ini

\* C20: Write emits, for each section in the order of Sections, the line [name],
\* then for each option in the order of Options the line "option = value" with
\* one space on each side of "=", then an empty line, also after the last
\* section, and nothing else; it leaves the document unchanged.
C20_WriteFormat == [] C20_Text /\ [][C20_Step]_vars

\* C20 witness: the text of a document of two sections, one with an option and
\* one without, was written to a sink that accepted every write.
C20_Witness ==
    /\ pc = "written" /\ ~sink.failed
    /\ Cardinality(DOMAIN ini.sections) = 2
    /\ \E s \in DOMAIN ini.sections : optionKeys(ini, s) = {}
    /\ \E s \in DOMAIN ini.sections : optionKeys(ini, s) # {}
    /\ sink.nwrites = 5

----------------------------------------------------------------------------
\* Claims on SpecScript

C21_HeaderStep ==
    LET l == TrimSpace(rd'.last)
    IN  (IsRead /\ IsHeaderText(l) /\ HasSection(rini, HeaderName(l))) =>
            /\ rini' = rini
            /\ section' = HeaderName(l)

C21_MergeStep ==
    LET l   == TrimSpace(rd'.last)
        tgt == IF lastHeader.seen THEN lastHeader.name ELSE EmptyString
    IN  (IsRead /\ IsAssignText(l) /\ HasOption(rini, tgt, AssignKey(l))) =>
            /\ GetOption(rini', tgt, AssignKey(l)) = <<AssignValue(l), TRUE>>
            /\ Sections(rini') = Sections(rini)
            /\ \A s \in DOMAIN rini.sections :
                  /\ Options(rini', s) = Options(rini, s)
                  /\ \A k \in optionKeys(rini, s) :
                        (s # tgt \/ k # AssignKey(l)) =>
                            GetOption(rini', s, k) = GetOption(rini, s, k)

\* C21: a section header that names a section already in the document leaves
\* the document as it is, with the options, the values and the position of
\* that section, and makes it the current section; an assignment that follows
\* with a key the section holds overwrites the value and changes no list.
C21_RepeatedHeader == [][C21_HeaderStep /\ C21_MergeStep]_vars

\* C21 witness: in an ordered document, after [a], a=b, [b] and [a] again, a=a
\* overwrote the option of the first section.
C21_Witness ==
    /\ rini.ordered
    /\ rd.nreads = 5
    /\ rd.last = <<"a", "=", "a">>
    /\ rini.sectionNames = <<(<<"a">>), (<<"b">>)>>
    /\ lastHeader.name = <<"a">>
    /\ rini.sections[<<"a">>].options = MapPut(EmptyMap, <<"a">>, <<"a">>)
    /\ optionKeys(rini, <<"b">>) = {}

\* the pieces of the text t between line feeds; the last piece is what follows
\* the last line feed, empty when t ends with one
RECURSIVE SplitLines(_)
SplitLines(t) ==
    IF indexes(t, "\n") = {} THEN <<t>>
    ELSE LET n == CHOOSE i \in indexes(t, "\n") : \A j \in indexes(t, "\n") : i <= j
         IN  <<SubSeq(t, 1, n - 1)>> \o SplitLines(SubSeq(t, n + 1, Len(t)))

\* one line applied to a document d with current section sec, n lines counted
\* and the error err so far
RefLine(st, raw) ==
    LET l == TrimSpace(raw)
    IN  IF st.err # Nil THEN st
        ELSE IF l = EmptyString \/ l[1] \in {";", "#"} THEN [st EXCEPT !.n = @ + 1]
        ELSE IF IsAssignText(l)
        THEN [st EXCEPT !.n = @ + 1,
                        !.d = AddOptionOp(@, st.sec, AssignKey(l), AssignValue(l)).self]
        ELSE IF IsHeaderText(l)
        THEN [st EXCEPT !.n = @ + 1,
                        !.d = AddSectionOp(@, HeaderName(l)).self,
                        !.sec = HeaderName(l)]
        ELSE [st EXCEPT !.n = @ + 1, !.err = ErrSyntax(st.n + 1, l)]

\* the lines ls applied once each, in order, up to the first syntax error
RECURSIVE RefLines(_, _)
RefLines(st, ls) == IF ls = <<>> THEN st ELSE RefLines(RefLine(st, Head(ls)), Tail(ls))

RefParse(t, ordered) ==
    RefLines([d |-> NewINI(ordered), sec |-> EmptyString, n |-> 0, err |-> Nil],
             SplitLines(t))

\* C22: when parse has returned, the document and the error are those of
\* applying every line of the text exactly once, in order, up to the first
\* syntax error, the last line counting whether or not a line feed ends it; the
\* empty read at the end of a text that ends with a line feed adds nothing, and
\* without a syntax error the stream was read once per piece of the text.
C22_EveryLineOnce ==
    pc = "returned" =>
        LET ref == RefParse(rd.text, rini.ordered)
        IN  /\ rini = ref.d
            /\ perr = ref.err
            /\ rd.nreads = ref.n
            /\ perr = Nil => rd.nreads = Len(SplitLines(rd.text))

\* C22 witness: the last line b=a had no line feed and its option was stored.
C22_Witness ==
    /\ pc = "returned" /\ perr = Nil
    /\ rd.nreads = 3
    /\ rd.last = <<"b", "=", "a">>
    /\ rd.text[Len(rd.text)] = "a"
    /\ \E s \in DOMAIN rini.sections : HasOption(rini, s, <<"b">>)
    /\ Cardinality(DOMAIN rini.sections) = 2

----------------------------------------------------------------------------
\* Claims on Spec: removal and re-creation of a section

C23_Gone ==
    \A p \in gone.opts :
        /\ ~HasOption(ini, p[1], p[2])
        /\ GetOption(ini, p[1], p[2]) = <<EmptyString, FALSE>>
        /\ \A l \in Options(ini, p[1]) : p[2] \notin Range(l)

C23_Step ==
    LET s == lastOp'.sec
    IN  /\ (lastOp'.op = "RemoveSection" /\ lastOp'.ret) =>
              /\ ~HasSection(ini', s)
              /\ \A k \in OptPool : GetOption(ini', s, k) = <<EmptyString, FALSE>>
        /\ (s \in gone.secs /\ ~HasSection(ini, s) /\ HasSection(ini', s)) =>
              /\ lastOp'.op = "AddSection" => optionKeys(ini', s) = {}
              /\ lastOp'.op = "AddOption" =>
                    ini'.sections[s].options = MapPut(EmptyMap, lastOp'.opt, lastOp'.val)
              /\ ini.ordered =>
                    \A l \in Sections(ini') :
                        /\ l[Len(l)] = s
                        /\ \A x \in DOMAIN ini.sections : ComesBefore(l, x, s)

\* C23: after RemoveSection(s) returned true no option that s held can be
\* retrieved until it is added again; when s is created again by AddSection or
\* AddOption it holds nothing but what that call added, and in an ordered
\* document it is listed after every section present at that moment.
C23_RemovedSectionForgotten == [] C23_Gone /\ [][C23_Step]_vars

\* C23 witness: in an ordered document a section that was removed while holding
\* an option was created again by AddSection, behind another section, and the
\* option is still gone.
C23_Witness ==
    /\ ini.ordered
    /\ lastOp.op = "AddSection" /\ lastOp.ret
    /\ lastOp.sec \in gone.secs
    /\ \E k \in OptPool : <<lastOp.sec, k>> \in gone.opts
    /\ Len(ini.sectionNames) = 2
    /\ ini.sectionNames[2] = lastOp.sec

----------------------------------------------------------------------------
\* Claims on SpecAlias

\* C24: a list returned by Sections() or Options(s) keeps its length and its
\* elements whatever calls are made on the document afterwards.
C24_Snapshot == snap.kind # "none" => snapView = snap.was
====
